---- MODULE Spec2Model ----
(***************************************************************************)
(* Entity resolution and incremental graph merge of the diary encoder:     *)
(* GraphProcessor (src/core/graph.py) over the VectorDB store boundary     *)
(* (src/core/vector_db.py), driven by Encoder (src/core/encoder.py).       *)
(*                                                                         *)
(* Text values are sequences of one-character strings, so that lower(),    *)
(* substring tests, joins, splits and the difflib ratio are computed.      *)
(* Identifiers, class names and relation labels are plain strings.         *)
(***************************************************************************)
EXTENDS Integers, Sequences, FiniteSets, TLC

VARIABLES
    pc,             \* position of the pipeline / of merge_chunk_with_global_graph
    chunk,          \* the segment being processed (a Chunk)
    store,          \* the tenant's objects in Weaviate, all collections
    id_map,         \* merge_chunk_with_global_graph's local id -> global id map
    cursor,         \* index of the record phase 1 is at
    found,          \* global_obj returned by search_database for that record
    run,            \* number of merge_chunk_with_global_graph calls started
    clock,          \* source of created_at timestamps
    nextUuid,       \* source of the UUIDs Weaviate generates on insert
    handed,         \* the chunks handed to db.store_chunks, one per call
    pre,            \* the segment as it was when the current merge call began
    llm_out,        \* number of edges the discovery call returned to the builder
    rule_out,       \* what the rule pass of the builder produced
    failedUpserts,  \* local ids whose update_object returned False (this call)
    persistFailed,  \* collections whose batch insert failed (this call)
    returns,        \* per normal return: the number of global records, the failed batches
    raisedBy,       \* the call whose exception left the current call, or "none"
    compared,       \* phase 1: the last pair given to check_for_match, and the results
    queried,        \* what the queries of search_database returned for the record at hand
    prompt,         \* what the prompt of the discovery call showed: edges and records
    upsert,         \* the last update_object call: its input, its result, the store before
    other,          \* a second merge_chunk_with_global_graph call on the same store
    tasks,          \* stage two: how many call_llm tasks are at each position
    semaphore       \* stage two: the free slots of asyncio.Semaphore(PARALLEL_LIMIT)

vars == <<pc, chunk, store, id_map, cursor, found, run, clock, nextUuid, handed,
          pre, llm_out, rule_out, failedUpserts, persistFailed, returns, raisedBy,
          compared, queried, prompt, upsert, other, tasks, semaphore>>

-----------------------------------------------------------------------------
(* Bounds of the model.                                                    *)

\* merge_chunk_with_global_graph calls on the one segment (a retry is a second call)
MaxRuns == 2
\* edges the discovery call returns at most
MaxLlmEdges == 2
\* results one lexical or one vector query returns at most (the code asks for 5)
MaxHits == 1

-----------------------------------------------------------------------------
(* Text.                                                                   *)

\* Python's None in an Optional[str] field
None == <<"<None>">>

\* truthiness of an Optional[str]: neither None nor ""
Truthy(t) == t # <<>> /\ t # None

\* how an f-string renders the value
Fmt(t) == IF t = None THEN <<"N", "o", "n", "e">> ELSE t

UpperAlphabet == <<"A","B","C","D","E","F","G","H","I","J","K","L","M",
                   "N","O","P","Q","R","S","T","U","V","W","X","Y","Z">>
LowerAlphabet == <<"a","b","c","d","e","f","g","h","i","j","k","l","m",
                   "n","o","p","q","r","s","t","u","v","w","x","y","z">>

LowerChar(c) ==
    IF \E i \in 1..26 : UpperAlphabet[i] = c
    THEN LowerAlphabet[CHOOSE i \in 1..26 : UpperAlphabet[i] = c]
    ELSE c

\* str.lower(); SubSeq makes the result a tuple
Lower(t) == SubSeq([i \in 1..Len(t) |-> LowerChar(t[i])], 1, Len(t))

\* needle in hay
Contains(hay, needle) ==
    \E i \in 0..(Len(hay) - Len(needle)) :
        SubSeq(hay, i + 1, i + Len(needle)) = needle

Whitespace == {" ", "\n"}

RECURSIVE LStrip(_)
LStrip(t) == IF t # <<>> /\ Head(t) \in Whitespace THEN LStrip(Tail(t)) ELSE t

RECURSIVE RStrip(_)
RStrip(t) ==
    IF t # <<>> /\ t[Len(t)] \in Whitespace THEN RStrip(SubSeq(t, 1, Len(t) - 1)) ELSE t

\* str.strip()
Strip(t) == RStrip(LStrip(t))

\* str.split(sep) for a one-character separator
RECURSIVE Split(_, _)
Split(t, sep) ==
    IF \E i \in 1..Len(t) : t[i] = sep
    THEN LET i == CHOOSE k \in 1..Len(t) : t[k] = sep /\ \A m \in 1..(k - 1) : t[m] # sep
         IN  <<SubSeq(t, 1, i - 1)>> \o Split(SubSeq(t, i + 1, Len(t)), sep)
    ELSE <<t>>

\* ", ".join(str(item) for item in items)
RECURSIVE Join(_)
Join(items) ==
    IF items = <<>> THEN <<>>
    ELSE IF Len(items) = 1 THEN items[1]
    ELSE items[1] \o <<",", " ">> \o Join(Tail(items))

NonEmpty(t) == t # <<>>

\* [item.strip() for item in s.split(',') if item.strip()]
SplitList(t) ==
    LET parts == Split(t, ",")
        stripped == [i \in 1..Len(parts) |-> Strip(parts[i])]
    IN  SelectSeq(stripped, NonEmpty)

\* the word tokens BM25 indexes: maximal runs of letters and digits, lower-cased
Separators == {" ", "\n", ",", "/"}

RECURSIVE Tokens(_)
Tokens(t) ==
    IF t = <<>> THEN {}
    ELSE IF Head(t) \in Separators THEN Tokens(Tail(t))
    ELSE LET n == IF \E i \in 1..Len(t) : t[i] \in Separators
                  THEN (CHOOSE k \in 1..Len(t) :
                            t[k] \in Separators /\ \A m \in 1..(k - 1) : t[m] \notin Separators) - 1
                  ELSE Len(t)
         IN  {Lower(SubSeq(t, 1, n))} \cup Tokens(SubSeq(t, n + 1, Len(t)))

-----------------------------------------------------------------------------
(* difflib.SequenceMatcher(None, a, b).ratio() as the pair <<2*M, T>>:     *)
(* M the matched characters found by the recursive longest-block search,   *)
(* T the total length. No element is junk below 200 characters.            *)

Min(a, b) == IF a <= b THEN a ELSE b

\* find_longest_match: the longest block, earliest in a, then earliest in b
LongestMatch(a, b) ==
    LET blocks == {t \in (1..Len(a)) \X (1..Len(b)) \X (1..Min(Len(a), Len(b))) :
                      /\ t[1] + t[3] - 1 <= Len(a)
                      /\ t[2] + t[3] - 1 <= Len(b)
                      /\ SubSeq(a, t[1], t[1] + t[3] - 1) = SubSeq(b, t[2], t[2] + t[3] - 1)}
    IN  IF blocks = {} THEN <<1, 1, 0>>
        ELSE CHOOSE t \in blocks : \A u \in blocks :
                \/ t[3] > u[3]
                \/ t[3] = u[3] /\ t[1] < u[1]
                \/ t[3] = u[3] /\ t[1] = u[1] /\ t[2] <= u[2]

RECURSIVE MatchCount(_, _)
MatchCount(a, b) ==
    IF a = <<>> \/ b = <<>> THEN 0
    ELSE LET m == LongestMatch(a, b)
         IN  IF m[3] = 0 THEN 0
             ELSE m[3]
                  + MatchCount(SubSeq(a, 1, m[1] - 1), SubSeq(b, 1, m[2] - 1))
                  + MatchCount(SubSeq(a, m[1] + m[3], Len(a)), SubSeq(b, m[2] + m[3], Len(b)))

\* fuzzy_similarity(str1, str2) as a fraction <<numerator, denominator>>
fuzzy_similarity(str1, str2) ==
    IF ~Truthy(str1) \/ ~Truthy(str2) THEN <<0, 1>>
    ELSE <<2 * MatchCount(Lower(str1), Lower(str2)), Len(str1) + Len(str2)>>

\* fraction q >= num/den
AtLeast(q, num, den) == q[1] * den >= num * q[2]

-----------------------------------------------------------------------------
(* The record classes of config/classes.py. A record carries its class in  *)
(* cls; hasattr(obj, f) is f \in DOMAIN obj.                               *)

Event(object_id, title, description, time, location, participants) ==
    [cls |-> "Event", object_id |-> object_id, title |-> title,
     description |-> description, time |-> time, location |-> location,
     participants |-> participants]

Person(object_id, name, alias, description, relationship_to_user) ==
    [cls |-> "Person", object_id |-> object_id, name |-> name, alias |-> alias,
     description |-> description, relationship_to_user |-> relationship_to_user]

ThoughtReflection(object_id, title, description, emotion, people_mentioned) ==
    [cls |-> "ThoughtReflection", object_id |-> object_id, title |-> title,
     description |-> description, emotion |-> emotion,
     people_mentioned |-> people_mentioned]

Emotion(object_id, title, description, intensity) ==
    [cls |-> "Emotion", object_id |-> object_id, title |-> title,
     description |-> description, intensity |-> intensity]

Problem(object_id, title, description, people, emotions) ==
    [cls |-> "Problem", object_id |-> object_id, title |-> title,
     description |-> description, people |-> people, emotions |-> emotions]

Achievement(object_id, title, description, people, emotions) ==
    [cls |-> "Achievement", object_id |-> object_id, title |-> title,
     description |-> description, people |-> people, emotions |-> emotions]

FutureIntention(object_id, title, description, people) ==
    [cls |-> "FutureIntention", object_id |-> object_id, title |-> title,
     description |-> description, people |-> people]

Connection(source_id, target_id, type, created_at) ==
    [cls |-> "Connection", source_id |-> source_id, target_id |-> target_id,
     type |-> type, created_at |-> created_at]

\* a Chunk; a category the extraction left None is the empty list
Chunk(chunk_id, events, people, thoughts, emotions, problems, achievements, goals) ==
    [cls |-> "Chunk", chunk_id |-> chunk_id, events |-> events, people |-> people,
     thoughts |-> thoughts, emotions |-> emotions, problems |-> problems,
     achievements |-> achievements, goals |-> goals, connections |-> <<>>]

\* @weaviate_collection(name=...)
CollectionName(cls) ==
    CASE cls = "Event" -> "ChunkEvent"
      [] cls = "Person" -> "ChunkPerson"
      [] cls = "ThoughtReflection" -> "ChunkThought"
      [] cls = "Emotion" -> "ChunkEmotion"
      [] cls = "Problem" -> "ChunkProblem"
      [] cls = "Achievement" -> "ChunkAchievement"
      [] cls = "FutureIntention" -> "ChunkFutureIntention"
      [] cls = "Connection" -> "Connection"
      [] cls = "Chunk" -> "Chunk"

\* get_model_class(collection_name)
get_model_class(collection_name) ==
    CHOOSE cls \in {"Event", "Person", "ThoughtReflection", "Emotion", "Problem",
                    "Achievement", "FutureIntention", "Connection", "Chunk"} :
        CollectionName(cls) = collection_name

\* @weaviate_collection(vectors=[...])
VectorFields(cls) ==
    CASE cls = "Event" -> <<"title", "content">>
      [] cls = "Person" -> <<"name", "context">>
      [] cls = "ThoughtReflection" -> <<"description", "title">>
      [] cls = "Emotion" -> <<"content", "title">>
      [] cls = "Problem" -> <<"content", "title">>
      [] cls = "Achievement" -> <<"content", "title">>
      [] cls = "FutureIntention" -> <<"content", "title">>
      [] cls = "Connection" -> <<>>
      [] cls = "Chunk" -> <<"summary">>

\* the subcollections of Chunk, in the order of the decorator
Subcollections ==
    <<"events", "people", "thoughts", "emotions", "problems", "achievements",
      "goals", "connections">>

RECURSIVE ConcatAll(_)
ConcatAll(ss) == IF ss = <<>> THEN <<>> ELSE Head(ss) \o ConcatAll(Tail(ss))

Range(s) == {s[i] : i \in 1..Len(s)}

-----------------------------------------------------------------------------
(* GraphProcessor.create_local_graph_connections                           *)

find_matching_people(c, name) ==
    LET n == Lower(name)
        hit(person) == \/ Truthy(person.name) /\ Contains(Lower(person.name), n)
                       \/ Truthy(person.alias) /\ Contains(Lower(person.alias), n)
    IN  SelectSeq(c.people, hit)

find_matching_emotions(c, title) ==
    LET t == Lower(title)
        hit(emotion) == Truthy(emotion.title) /\ t = Lower(emotion.title)
    IN  SelectSeq(c.emotions, hit)

\* the (source, target, type) of the Connections connect_entities builds;
\* match_fn is the matching function over the names it is applied to
connect_entities(source_id, names, match_fn, conn_type) ==
    ConcatAll([i \in 1..Len(names) |->
        LET entities == match_fn[names[i]]
        IN  [j \in 1..Len(entities) |->
                <<source_id, entities[j].object_id, conn_type>>]])

\* lines 36-60: the rule pass, category by category
RulePass(c) ==
    LET people(names) == [name \in Range(names) |-> find_matching_people(c, name)]
        emotions(titles) == [title \in Range(titles) |-> find_matching_emotions(c, title)]
        ofEvent(e) ==
            connect_entities(e.object_id, e.participants, people(e.participants),
                             "participated in")
        ofThought(t) ==
            connect_entities(t.object_id, t.people_mentioned, people(t.people_mentioned),
                             "related to")
            \o (IF Truthy(t.emotion)
                THEN connect_entities(t.object_id, <<t.emotion>>, emotions(<<t.emotion>>),
                                      "related to")
                ELSE <<>>)
        ofBoth(p) ==
            connect_entities(p.object_id, p.people, people(p.people), "related to")
            \o connect_entities(p.object_id, p.emotions, emotions(p.emotions), "related to")
        ofGoal(g) == connect_entities(g.object_id, g.people, people(g.people), "related to")
    IN  ConcatAll([i \in 1..Len(c.events) |-> ofEvent(c.events[i])])
        \o ConcatAll([i \in 1..Len(c.thoughts) |-> ofThought(c.thoughts[i])])
        \o ConcatAll([i \in 1..Len(c.problems) |-> ofBoth(c.problems[i])])
        \o ConcatAll([i \in 1..Len(c.achievements) |-> ofBoth(c.achievements[i])])
        \o ConcatAll([i \in 1..Len(c.goals) |-> ofGoal(c.goals[i])])

\* Connection(...): created_at defaults to datetime.now()
Stamp(triples, now) ==
    [i \in 1..Len(triples) |->
        Connection(triples[i][1], triples[i][2], triples[i][3], now + i)]

\* line 105: all_objects, which leaves the emotions out
AllObjects(c) ==
    c.events \o c.people \o c.thoughts \o c.problems \o c.achievements \o c.goals

ObjectIds(objs) == {objs[i].object_id : i \in 1..Len(objs)}

\* list.remove(x): drops the first element equal to x
ListRemove(s, x) ==
    LET k == CHOOSE i \in 1..Len(s) : s[i] = x /\ \A j \in 1..(i - 1) : s[j] # x
    IN  SubSeq(s, 1, k - 1) \o SubSeq(s, k + 1, Len(s))

\* lines 99-113: "for conn in connections" with connections.remove(conn) in the
\* body; the list iterator goes by index, so a removal shifts the rest down
RECURSIVE ValidateFrom(_, _, _)
ValidateFrom(connections, i, ids) ==
    IF i > Len(connections) THEN connections
    ELSE LET conn == connections[i]
         IN  IF conn.source_id \notin ids \/ conn.target_id \notin ids
             THEN ValidateFrom(ListRemove(connections, conn), i + 1, ids)
             ELSE ValidateFrom(connections, i + 1, ids)

\* lines 36-115, given what the discovery call returned
create_local_graph_connections(c, now, llm_generated) ==
    LET rule == Stamp(RulePass(c), now)
        llm == Stamp(llm_generated, now + Len(rule))
    IN  ValidateFrom(rule \o llm, 1, ObjectIds(AllObjects(c)))

\* lines 73-74, "Present connections": read from chunk.connections, None as []
PromptConnections(c) ==
    SubSeq([i \in 1..Len(c.connections) |->
               <<c.connections[i].source_id, c.connections[i].target_id,
                 c.connections[i].type>>], 1, Len(c.connections))

\* lines 78-90, "Entities to connect": the identifiers of the items listed
PromptEntities(c) ==
    LET items == c.events \o c.people \o c.thoughts \o c.problems \o c.achievements
                 \o c.goals
        shown(item) ==
            \/ {"object_id", "title", "description"} \subseteq DOMAIN item
            \/ {"object_id", "name"} \subseteq DOMAIN item
    IN  ObjectIds(SelectSeq(items, shown))

-----------------------------------------------------------------------------
(* The store boundary, src/core/vector_db.py. A stored object is           *)
(* [uuid, collection, properties, vectors]: vectors the named vectors it   *)
(* was given. Of a Chunk only chunk_id is kept among the properties.       *)

ListFields == {"participants", "people_mentioned", "people", "emotions"}

TextFields == {"title", "name", "alias", "description", "relationship_to_user",
               "time", "location", "emotion", "intensity"}

\* _extract_model_properties: a list becomes a comma-separated string, None ""
_extract_model_properties(instance, parent_id) ==
    LET excluded == IF instance.cls = "Chunk" THEN Range(Subcollections) ELSE {}
        fields == DOMAIN instance \ ({"cls"} \cup excluded)
        conv(f) == IF f \in ListFields THEN Join(instance[f])
                   ELSE IF f \in TextFields /\ instance[f] = None THEN <<>>
                   ELSE instance[f]
        own == [f \in fields |-> conv(f)]
    IN  IF instance.cls # "Chunk" /\ parent_id # "" /\ "chunk_id" \notin DOMAIN instance
        THEN own @@ [chunk_id |-> parent_id]
        ELSE own

\* the vector fields of an instance that get an embedding (non-empty after strip)
EmbeddedFields(instance) ==
    {f \in Range(VectorFields(instance.cls)) :
        /\ f \in DOMAIN instance
        /\ instance[f] # None
        /\ Strip(instance[f]) # <<>>}

\* text_search, lines 342-359: the model built from a hit's properties
TextModel(o) ==
    LET p == o.properties
    IN  [f \in (DOMAIN p \ {"chunk_id"}) |->
            IF f \in ListFields THEN SplitList(p[f]) ELSE p[f]]
        @@ [cls |-> get_model_class(o.collection)]

\* search_database, lines 235-243: a non-empty list property stays a string;
\* Event.participants has no validator and rejects it
VectorModelFails(o) ==
    get_model_class(o.collection) = "Event" /\ o.properties.participants # <<>>

\* the validators of ThoughtReflection, Problem, Achievement, FutureIntention:
\* [v] if v.strip() else []
VectorModel(o) ==
    LET p == o.properties
    IN  [f \in (DOMAIN p \ {"chunk_id"}) |->
            IF f \in ListFields
            THEN (IF Strip(p[f]) # <<>> THEN <<p[f]>> ELSE <<>>)
            ELSE IF f = "object_id" THEN o.uuid
            ELSE p[f]]
        @@ [cls |-> get_model_class(o.collection)]

\* Python's None as a search result
NoResult == [cls |-> "NoneType"]

\* search_database, lines 181-198
TextFieldsOf(obj) == IF obj.cls = "Person" THEN {"name", "alias"} ELSE {"title"}

SearchQuery(obj) ==
    IF obj.cls = "Person" THEN (IF Truthy(obj.name) THEN obj.name ELSE <<>>)
    ELSE obj.title

\* line 201
TextQueryIssued(obj) == SearchQuery(obj) # <<>>

\* lines 213-216: the vector fields a query is issued for
VectorQueryFields(obj) ==
    SelectSeq(VectorFields(obj.cls),
              LAMBDA f : f \in DOMAIN obj /\ Truthy(obj[f]))

\* what BM25 over the queried properties can return: an object sharing a token
TextCandidates(db, obj) ==
    {o \in db : /\ o.collection = CollectionName(obj.cls)
                /\ \E f \in TextFieldsOf(obj) :
                      Tokens(o.properties[f]) \cap Tokens(SearchQuery(obj)) # {}}

\* what near_vector over target_vector f can return: an object with that vector
VectorCandidates(db, obj, f) ==
    {o \in db : o.collection = CollectionName(obj.cls) /\ f \in o.vectors}

\* BM25 scores and vector distances, in tenths
TextScores == {5, 30}
Distances == {0, 10}

\* the result list of one query over its candidates: the best-ranked ones,
\* each once, as many as there are up to MaxHits; order says whether the
\* ranking value falls (BM25 score) or rises (distance) along the list
HitLists(cands, vals, order) ==
    LET n == Min(MaxHits, Cardinality(cands))
    IN  {h \in [1..n -> cands \X vals] :
            /\ \A i, j \in 1..n : i # j => h[i][1] # h[j][1]
            /\ \A i \in 1..(n - 1) : order * h[i][2] <= order * h[i + 1][2]}

\* lines 229-247: the results of one vector query up to the first hit whose
\* model cannot be built (the exception leaves the loop)
RECURSIVE VectorResults(_)
VectorResults(hits) ==
    IF hits = <<>> \/ VectorModelFails(Head(hits)[1]) THEN <<>>
    ELSE <<[model |-> VectorModel(Head(hits)[1]),
            score |-> <<6, 10 + Head(hits)[2]>>]>>      \* 1/(1+d) * 0.6
         \o VectorResults(Tail(hits))

\* lines 209-210
TextResults(hits) ==
    [i \in 1..Len(hits) |->
        [model |-> TextModel(hits[i][1]),
         score |-> <<4 * hits[i][2], 100>>]]            \* score * 0.4

Greater(q, r) == q[1] * r[2] > r[1] * q[2]

\* lines 253-258: max(all_results, key=...) keeps the first of equal maxima
BestResult(all_results) ==
    IF all_results = <<>> THEN NoResult
    ELSE all_results[CHOOSE i \in 1..Len(all_results) :
            \A j \in 1..Len(all_results) :
                \/ Greater(all_results[i].score, all_results[j].score)
                \/ ~Greater(all_results[j].score, all_results[i].score) /\ i <= j].model

\* what one query did: it raised, or it returned hits
QueryOutcomes(cands, vals, order) ==
    {[raise |-> TRUE, hits |-> <<>>]}
    \cup {[raise |-> FALSE, hits |-> h] : h \in HitLists(cands, vals, order)}

\* an exception leaving search_database
Raised == [cls |-> "raise"]

\* search_database given what the queries did: text_out the outcome of
\* db.text_search, which is called outside any try, vec_out[f] the outcome of
\* the vector query on field f, which is inside one
search_database(obj, text_out, vec_out) ==
    IF TextQueryIssued(obj) /\ text_out.raise THEN Raised
    ELSE LET text == IF TextQueryIssued(obj) THEN TextResults(text_out.hits) ELSE <<>>
             fields == VectorQueryFields(obj)
             vec == ConcatAll([i \in 1..Len(fields) |->
                        IF vec_out[fields[i]].raise THEN <<>>
                        ELSE VectorResults(vec_out[fields[i]].hits)])
         IN  BestResult(text \o vec)

-----------------------------------------------------------------------------
(* GraphProcessor.check_for_match                                          *)

EXACT_MATCH_THRESHOLD == <<95, 100>>
FUZZY_MATCH_THRESHOLD == <<8, 10>>
SEMANTIC_MATCH_THRESHOLD == <<7, 10>>

\* similarity > threshold
Exceeds(q, threshold) == q[1] * threshold[2] > threshold[1] * q[2]

Reaches(q, threshold) == AtLeast(q, threshold[1], threshold[2])

Has(obj, f) == f \in DOMAIN obj

\* step 1 left out
TitleNeverMatches(l, g) == FALSE

\* step 1, lines 281-289
TitleMatch(l, g) ==
    /\ Has(l, "title") /\ Has(g, "title")
    /\ Truthy(l.title) /\ Truthy(g.title)
    /\ \/ Lower(l.title) = Lower(g.title)
       \/ Reaches(fuzzy_similarity(l.title, g.title), EXACT_MATCH_THRESHOLD)

\* step 2, lines 292-305
PersonMatch(l, g) ==
    /\ l.cls = "Person"
    /\ \/ /\ Truthy(l.name) /\ Truthy(g.name)
          /\ Reaches(fuzzy_similarity(l.name, g.name), FUZZY_MATCH_THRESHOLD)
       \/ /\ Truthy(l.name) /\ Truthy(g.alias)
          /\ Contains(Lower(g.alias), Lower(l.name))
       \/ /\ Truthy(l.alias) /\ Truthy(g.name)
          /\ Contains(Lower(l.alias), Lower(g.name))

BothDescribed(l, g) ==
    /\ Has(l, "description") /\ Has(g, "description")
    /\ Truthy(l.description) /\ Truthy(g.description)

\* step 3, lines 308-312
DescriptionMatch(l, g) ==
    /\ BothDescribed(l, g)
    /\ Reaches(fuzzy_similarity(l.description, g.description), SEMANTIC_MATCH_THRESHOLD)

\* step 4, lines 315-329
EventMatch(l, g) ==
    /\ l.cls = "Event"
    /\ Truthy(l.location) /\ Truthy(g.location)
    /\ Reaches(fuzzy_similarity(l.location, g.location), FUZZY_MATCH_THRESHOLD)
    /\ Truthy(l.time) /\ Truthy(g.time)
    /\ Reaches(fuzzy_similarity(l.time, g.time), FUZZY_MATCH_THRESHOLD)

\* step 5, lines 332-351: (2*title + description) / field_count >= 0.8
MultiFieldMatch(l, g) ==
    LET titled == /\ Has(l, "title") /\ Has(g, "title")
                  /\ Truthy(l.title) /\ Truthy(g.title)
        t == IF titled THEN fuzzy_similarity(l.title, g.title) ELSE <<0, 1>>
        d == IF BothDescribed(l, g) THEN fuzzy_similarity(l.description, g.description)
             ELSE <<0, 1>>
        field_count == (IF titled THEN 2 ELSE 0) + (IF BothDescribed(l, g) THEN 1 ELSE 0)
        total_score == <<2 * t[1] * d[2] + d[1] * t[2], t[2] * d[2]>>
    IN  /\ field_count > 0
        /\ Reaches(<<total_score[1], total_score[2] * field_count>>, FUZZY_MATCH_THRESHOLD)

check_for_match(local_object, global_object) ==
    IF global_object.cls = "NoneType" \/ local_object.cls # global_object.cls THEN FALSE
    ELSE \/ TitleMatch(local_object, global_object)
         \/ PersonMatch(local_object, global_object)
         \/ DescriptionMatch(local_object, global_object)
         \/ EventMatch(local_object, global_object)
         \/ MultiFieldMatch(local_object, global_object)

-----------------------------------------------------------------------------
(* GraphProcessor.merge_objects                                            *)

\* f"{b} \n {a}"
NewlineJoinGlobalFirst(a, b) == Fmt(b) \o <<" ", "\n", " ">> \o Fmt(a)

\* f"{a} \n {b}"
NewlineJoin(a, b) == Fmt(a) \o <<" ", "\n", " ">> \o Fmt(b)

\* f"{a} / {b}"
SlashJoin(a, b) == Fmt(a) \o <<" ", "/", " ">> \o Fmt(b)

\* a or b, for strings and for lists
Or(a, b) == IF Truthy(a) THEN a ELSE b
OrList(a, b) == IF a # <<>> THEN a ELSE b

\* a merger that hands back the local record on a type mismatch
MergeMismatchKeepsLocal(l, g) == IF l.cls # g.cls THEN l ELSE g

merge_objects(l, g) ==
    IF l.cls # g.cls THEN g
    ELSE CASE l.cls = "Event" ->
                Event(g.object_id, g.title, NewlineJoin(l.description, g.description),
                      g.time,
                      IF Truthy(l.location) THEN SlashJoin(g.location, l.location)
                      ELSE g.location,
                      OrList(g.participants, l.participants))
           [] l.cls = "Person" ->
                Person(g.object_id, g.name,
                       IF Truthy(l.alias) THEN SlashJoin(l.alias, g.alias) ELSE g.alias,
                       NewlineJoin(l.description, g.description),
                       IF Truthy(l.relationship_to_user)
                       THEN SlashJoin(l.relationship_to_user, g.relationship_to_user)
                       ELSE g.relationship_to_user)
           [] l.cls = "ThoughtReflection" ->
                ThoughtReflection(g.object_id, g.title,
                                  NewlineJoin(l.description, g.description),
                                  Or(g.emotion, l.emotion),
                                  OrList(g.people_mentioned, l.people_mentioned))
           [] l.cls = "Problem" ->
                Problem(g.object_id, g.title, NewlineJoin(l.description, g.description),
                        OrList(g.people, l.people), OrList(g.emotions, l.emotions))
           [] l.cls = "Achievement" ->
                Achievement(g.object_id, g.title, NewlineJoin(l.description, g.description),
                            OrList(g.people, l.people), OrList(g.emotions, l.emotions))
           [] l.cls = "FutureIntention" ->
                FutureIntention(g.object_id, g.title,
                                NewlineJoin(l.description, g.description),
                                OrList(g.people, l.people))
           [] OTHER -> g

-----------------------------------------------------------------------------
(* VectorDB.update_object and VectorDB.store_chunks                        *)

Uuid(n) == "U" \o ToString(n)

Exists(db, collection, uuid) ==
    \E o \in db : o.collection = collection /\ o.uuid = uuid

\* collection.data.update: the given properties and vectors replace the old
Updated(db, collection, uuid, properties, vectors) ==
    {IF o.collection = collection /\ o.uuid = uuid
     THEN [o EXCEPT !.properties = properties @@ o.properties,
                    !.vectors = vectors \cup o.vectors]
     ELSE o : o \in db}

\* lines 500-525, the embeddings made: fetch_ok says whether fetch_object_by_id
\* answered, write_ok whether the update or insert that is tried went through.
\* An insert under a UUID that exists is refused by the store.
update_object(db, input_model, fetch_ok, write_ok) ==
    LET collection == CollectionName(input_model.cls)
        uuid == input_model.object_id
        properties == _extract_model_properties(input_model, "")
        vectors == EmbeddedFields(input_model)
        exists == Exists(db, collection, uuid)
    IN  IF fetch_ok /\ exists /\ write_ok
        THEN [ok |-> TRUE, store |-> Updated(db, collection, uuid, properties, vectors)]
        ELSE IF ~exists /\ write_ok
        THEN [ok |-> TRUE,
              store |-> db \cup {[uuid |-> uuid, collection |-> collection,
                                  properties |-> properties, vectors |-> vectors]}]
        ELSE [ok |-> FALSE, store |-> db]

\* lines 174-200: (instance, parent_id) of the chunk and of its subcollections
InstancesData(c) ==
    <<[instance |-> c, parent_id |-> ""]>>
    \o ConcatAll([k \in 1..Len(Subcollections) |->
          [i \in 1..Len(c[Subcollections[k]]) |->
              [instance |-> c[Subcollections[k]][i], parent_id |-> c.chunk_id]]])

CollectionsOf(c) ==
    {CollectionName(InstancesData(c)[i].instance.cls) : i \in 1..Len(InstancesData(c))}

\* store_chunks([c]): every instance is added to its collection's batch with
\* no uuid, so Weaviate generates one. outcome[collection] is "ok", "novec"
\* (the batch embedding failed, lines 262-263) or "fail" (the batch failed)
store_chunks(db, c, outcome, uuid0) ==
    LET data == InstancesData(c)
    IN  db \cup
        {[uuid |-> Uuid(uuid0 + i),
          collection |-> CollectionName(data[i].instance.cls),
          properties |-> _extract_model_properties(data[i].instance, data[i].parent_id),
          vectors |-> IF outcome[CollectionName(data[i].instance.cls)] = "ok"
                      THEN EmbeddedFields(data[i].instance) ELSE {}]
         : i \in {k \in 1..Len(data) :
                    outcome[CollectionName(data[k].instance.cls)] # "fail"}}

-----------------------------------------------------------------------------
(* GraphProcessor.merge_chunk_with_global_graph, phase by phase            *)

\* the categories with the emotions among them
categoriesWithEmotions ==
    <<"events", "people", "thoughts", "emotions", "problems", "achievements", "goals">>

\* line 123
categories == <<"events", "people", "thoughts", "problems", "achievements", "goals">>

\* lines 126-128: the records phase 1 visits, in order
LocalObjects(c) == ConcatAll([k \in 1..Len(categories) |-> c[categories[k]]])

EmptyMap == [x \in {} |-> ""]

\* the map with k entered under itself
PutLocal(map, k, v) == [x \in DOMAIN map \cup {k} |-> IF x = k THEN k ELSE map[x]]

\* id_map[k] = v
Put(map, k, v) == [x \in DOMAIN map \cup {k} |-> IF x = k THEN v ELSE map[x]]

\* an identifier left as it is, whatever the map holds
RemapIdKeepsLocal(map, id) == id

\* lines 137-140
RemapId(map, id) == IF id \in DOMAIN map THEN map[id] ELSE id

\* a remap that drops the edges it rewrites
RemapDropsRewritten(connections, map) ==
    SelectSeq(connections,
              LAMBDA conn : conn.source_id \notin DOMAIN map /\ conn.target_id \notin DOMAIN map)

\* phase 2, lines 136-140
Remap(connections, map) ==
    [i \in 1..Len(connections) |->
        [connections[i] EXCEPT !.source_id = RemapId(map, @),
                               !.target_id = RemapId(map, @)]]

\* a record left with its connector fields as they are
ClearNothing(obj) == obj

\* lines 150-160
ClearConnectorFields(obj) ==
    [f \in DOMAIN obj |->
        IF f \in {"participants", "people_mentioned", "emotions", "people"} THEN <<>>
        ELSE IF f = "emotion" THEN <<>>
        ELSE obj[f]]

\* a category whose records are cleared and all kept
KeepCategory(objs, map) == [i \in 1..Len(objs) |-> ClearConnectorFields(objs[i])]

\* lines 146-160 for one category
PruneCategory(objs, map) ==
    LET kept == SelectSeq(objs, LAMBDA o : o.object_id \notin DOMAIN map)
    IN  [i \in 1..Len(kept) |-> ClearConnectorFields(kept[i])]

\* phase 3, lines 143-160
Prune(c, map) ==
    [f \in DOMAIN c |->
        IF f \in Range(categories) THEN PruneCategory(c[f], map) ELSE c[f]]

-----------------------------------------------------------------------------
(* The segments and the global stores the pipeline is started on.          *)

Anna == <<"A", "n", "n", "a">>
Party == <<"P", "a", "r", "t", "y">>
Work == <<"W", "o", "r", "k">>
Idea == <<"I", "d", "e", "a">>
Happy == <<"H", "a", "p", "p", "y">>
Fun == <<"f", "u", "n">>
Late == <<"l", "a", "t", "e">>
Win == <<"W", "i", "n">>
Gala == <<"G", "a", "l", "a">>

\* one Person named Anna, one Event she took part in
SegmentAnna ==
    Chunk("K1", <<Event("E1", Party, Fun, <<>>, <<>>, <<Anna>>)>>,
          <<Person("P1", Anna, None, None, None)>>, <<>>, <<>>, <<>>, <<>>, <<>>)

\* a thought, a problem and an achievement that name an emotion of the segment,
\* and a nameless person
SegmentMood ==
    Chunk("K1", <<>>, <<Person("P1", None, None, Late, None)>>,
          <<ThoughtReflection("T1", Idea, Fun, Lower(Happy), <<>>)>>,
          <<Emotion("M1", Happy, Fun, <<"s", "t", "r", "o", "n", "g">>)>>,
          <<Problem("Q1", Work, Late, <<>>, <<Lower(Happy)>>)>>,
          <<Achievement("A1", Win, Fun, <<>>, <<Lower(Happy)>>)>>, <<>>)

\* two people one participant name matches, and an intention
SegmentPair ==
    Chunk("K1", <<>>,
          <<Person("P1", Anna, None, Fun, None),
            Person("P2", <<"A", "n", "n">>, Lower(Anna), None, None)>>,
          <<>>, <<>>, <<>>, <<>>,
          <<FutureIntention("F1", Party, Fun, <<<<"a", "n", "n">>>>)>>)

\* two records of one person, each with a description of its own
SegmentTwins ==
    Chunk("K1", <<>>,
          <<Person("P1", Anna, None, Fun, None), Person("P2", Anna, None, Idea, None)>>,
          <<>>, <<>>, <<>>, <<>>, <<>>)

Segments == {SegmentAnna, SegmentMood, SegmentPair, SegmentTwins}

\* a global record written by update_object: its UUID is its object_id
Upserted(instance) ==
    [uuid |-> instance.object_id, collection |-> CollectionName(instance.cls),
     properties |-> _extract_model_properties(instance, ""),
     vectors |-> EmbeddedFields(instance)]

\* a global record written by store_chunks for an earlier segment: Weaviate
\* chose its UUID
Batched(uuid, instance, chunk_id) ==
    [uuid |-> uuid, collection |-> CollectionName(instance.cls),
     properties |-> _extract_model_properties(instance, chunk_id),
     vectors |-> EmbeddedFields(instance)]

GlobalAnna == Upserted(Person("G1", Lower(Anna), <<>>, Late, <<>>))
GlobalParty == Batched("G2", Event("L2", Lower(Party), Late, <<>>, <<>>, <<>>), "K0")
GlobalWork == Batched("G3", Problem("L3", Work, Fun, <<>>, <<>>), "K0")
GlobalHappy == Batched("G4", Emotion("L4", Happy, Late, <<"w", "e", "a", "k">>), "K0")

GlobalIdea == Upserted(ThoughtReflection("G5", Idea, Late, <<>>, <<>>))
GlobalPlan == Batched("G6", FutureIntention("L6", Party, Late, <<>>), "K0")
GlobalWin == Upserted(Achievement("G7", Win, Late, <<>>, <<>>))
\* an event merged earlier: update_object stored the participants it had
GlobalGala == Upserted(Event("G8", Gala, Late, <<>>, <<>>, <<Anna>>))

\* the same person as an earlier segment's store_chunks left her
GlobalAnnaBatched == Batched("G9", Person("L9", Lower(Anna), <<>>, Late, <<>>), "K0")

Stores ==
    {{}, {GlobalAnna}, {GlobalAnnaBatched},
     {GlobalAnna, GlobalParty, GlobalWork, GlobalHappy, GlobalIdea, GlobalPlan, GlobalWin,
      GlobalGala}}

\* the identifier the discovery call makes up
UnknownId == "X1"

\* the edges the discovery call returns: from the first record it was shown
\* to the last one, or to an identifier it made up
LlmEdges(c) ==
    IF AllObjects(c) = <<>> THEN {<<UnknownId, UnknownId, "mentioned">>}
    ELSE {<<AllObjects(c)[1].object_id, AllObjects(c)[Len(AllObjects(c))].object_id, "mentioned">>,
          <<AllObjects(c)[1].object_id, UnknownId, "mentioned">>}

LlmOutputs(c) == UNION {[1..n -> LlmEdges(c)] : n \in 0..MaxLlmEdges}

-----------------------------------------------------------------------------
(* The pipeline: Encoder._create_local_connections, then                   *)
(* Encoder._merge_with_global_graph, for one segment.                      *)

\* no pair compared yet, no query issued yet
NoPair == [local |-> NoResult, global |-> NoResult, match |-> FALSE, merged |-> NoResult]
NoQuery == [text |-> [raise |-> FALSE, hits |-> <<>>], vec |-> EmptyMap]

\* no prompt built yet
NoPrompt == [present |-> <<>>, listed |-> {}]

\* update_object not called yet
NoUpsert == [model |-> NoResult, ok |-> TRUE, before |-> {}]

\* no second merge call under way
NoOther == [pc |-> "idle", chunk |-> NoResult, found |-> NoResult]

\* encoder.py lines 18-19
RETRIES == 2
PARALLEL_LIMIT == 10

\* the positions of a call_llm task: waiting for a slot, in the LLM call, in
\* back-off, returned; and no task at any of them
Positions == {"waiting", "calling", "backoff"} \X (0..(RETRIES - 1)) \cup {<<"returned", 0>>}
NoTasks == [p \in Positions |-> 0]

Init ==
    /\ pc = "build"
    /\ chunk \in Segments
    /\ store \in Stores
    /\ id_map = EmptyMap
    /\ cursor = 0
    /\ found = NoResult
    /\ run = 0
    /\ clock = 0
    /\ nextUuid = 0
    /\ handed = <<>>
    /\ pre = chunk
    /\ llm_out = 0
    /\ rule_out = <<>>
    /\ failedUpserts = {}
    /\ persistFailed = {}
    /\ returns = <<>>
    /\ raisedBy = "none"
    /\ compared = NoPair
    /\ queried = NoQuery
    /\ prompt = NoPrompt
    /\ upsert = NoUpsert
    /\ other = NoOther
    /\ tasks = NoTasks
    /\ semaphore = PARALLEL_LIMIT

\* encoder.py line 298: chunk.connections = create_local_graph_connections(chunk)
CreateLocalConnections ==
    /\ pc = "build"
    /\ \E llm_generated \in LlmOutputs(chunk) :
          /\ chunk' = [chunk EXCEPT !.connections =
                          create_local_graph_connections(chunk, clock, llm_generated)]
          /\ rule_out' = Stamp(RulePass(chunk), clock)
          /\ llm_out' = Len(llm_generated)
          /\ prompt' = [present |-> PromptConnections(chunk),
                         listed |-> PromptEntities(chunk)]
          /\ clock' = clock + Len(RulePass(chunk)) + Len(llm_generated)
    /\ pc' = "merge"
    /\ UNCHANGED <<store, id_map, cursor, found, run, nextUuid, handed, pre,
                   failedUpserts, persistFailed, returns, raisedBy,
                   compared, queried, upsert, other, tasks,
                   semaphore>>

\* graph.py line 96: the discovery call raises, and so does the encoder
DiscoveryRaises ==
    /\ pc = "build"
    /\ pc' = "crashed"
    /\ raisedBy' = "generate_structured"
    /\ prompt' = [present |-> PromptConnections(chunk), listed |-> PromptEntities(chunk)]
    /\ UNCHANGED <<chunk, store, id_map, cursor, found, run, clock, nextUuid, handed,
                   pre, llm_out, rule_out, failedUpserts, persistFailed, returns,
                   compared, queried, upsert, other, tasks,
                   semaphore>>

\* phase 1 left after its first step, whatever records remain
AfterFirstRecord(c, i) == "remap"

\* where phase 1 goes after the record at index i
AfterRecord(c, i) == IF i >= Len(LocalObjects(c)) THEN "remap" ELSE "search"

\* lines 121-123: with VectorDB() as db: id_map = {}
Enter(connected) ==
    /\ run' = run + 1
    /\ pre' = chunk
    /\ id_map' = EmptyMap
    /\ found' = NoResult
    /\ failedUpserts' = {}
    /\ persistFailed' = {}
    /\ compared' = NoPair
    /\ queried' = NoQuery
    /\ upsert' = NoUpsert
    /\ IF connected
       THEN /\ pc' = AfterRecord(chunk, 0)
            /\ cursor' = 1
            /\ raisedBy' = "none"
       ELSE /\ pc' = "raised"
            /\ cursor' = 0
            /\ raisedBy' = "VectorDB"
    /\ UNCHANGED <<chunk, store, clock, nextUuid, handed, llm_out, rule_out, returns,
                   prompt, other, tasks,
                   semaphore>>

\* encoder.py line 305: the encoder's call of merge_chunk_with_global_graph
BeginMerge == pc = "merge" /\ \E connected \in BOOLEAN : Enter(connected)

\* the caller calls merge_chunk_with_global_graph on the same segment again
MergeAgain ==
    /\ pc \in {"done", "raised"}
    /\ run < MaxRuns
    /\ \E connected \in BOOLEAN : Enter(connected)

\* line 129: global_obj = self.search_database(db, local_obj)
Search ==
    /\ pc = "search"
    /\ LET local_obj == LocalObjects(chunk)[cursor]
           fields == Range(VectorQueryFields(local_obj))
       IN  \E text_out \in QueryOutcomes(TextCandidates(store, local_obj), TextScores, -1) :
           \E vec_out \in [fields -> UNION {QueryOutcomes(VectorCandidates(store, local_obj, f),
                                                          Distances, 1) : f \in fields}] :
              /\ \A f \in fields :
                    vec_out[f] \in QueryOutcomes(VectorCandidates(store, local_obj, f), Distances, 1)
              /\ queried' = [text |-> IF TextQueryIssued(local_obj) THEN text_out
                                       ELSE NoQuery.text,
                              vec |-> vec_out]
              /\ LET global_obj == search_database(local_obj, text_out, vec_out)
                 IN  IF global_obj = Raised
                     THEN /\ pc' = "raised"
                          /\ raisedBy' = "text_search"
                          /\ found' = NoResult
                     ELSE /\ pc' = "match"
                          /\ raisedBy' = raisedBy
                          /\ found' = global_obj
    /\ UNCHANGED <<chunk, store, id_map, cursor, run, clock, nextUuid, handed, pre,
                   llm_out, rule_out, failedUpserts, persistFailed, returns,
                   compared,
                   prompt, upsert, other, tasks,
                   semaphore>>

\* line 130, no match: on to the next record
NoMatch ==
    /\ pc = "match"
    /\ ~check_for_match(LocalObjects(chunk)[cursor], found)
    /\ compared' = [local |-> LocalObjects(chunk)[cursor], global |-> found,
                    match |-> FALSE, merged |-> NoResult]
    /\ pc' = AfterRecord(chunk, cursor)
    /\ cursor' = cursor + 1
    /\ found' = NoResult
    /\ queried' = NoQuery
    /\ UNCHANGED <<chunk, store, id_map, run, clock, nextUuid, handed, pre, llm_out,
                   rule_out, failedUpserts, persistFailed, returns, raisedBy,
                   prompt, upsert, other, tasks,
                   semaphore>>

\* lines 130-133: merge, upsert (its result is not looked at), map
MergeAndMap ==
    /\ pc = "match"
    /\ LET local_obj == LocalObjects(chunk)[cursor]
       IN  /\ check_for_match(local_obj, found)
           /\ \E fetch_ok, write_ok \in BOOLEAN :
                 LET done == update_object(store, merge_objects(local_obj, found),
                                           fetch_ok, write_ok)
                 IN  /\ store' = done.store
                     /\ upsert' = [model |-> merge_objects(local_obj, found),
                                    ok |-> done.ok, before |-> store]
                     /\ failedUpserts' = IF done.ok THEN failedUpserts
                                         ELSE failedUpserts \cup {local_obj.object_id}
           /\ id_map' = Put(id_map, local_obj.object_id, found.object_id)
           /\ compared' = [local |-> local_obj, global |-> found, match |-> TRUE,
                           merged |-> merge_objects(local_obj, found)]
    /\ pc' = AfterRecord(chunk, cursor)
    /\ cursor' = cursor + 1
    /\ found' = NoResult
    /\ queried' = NoQuery
    /\ UNCHANGED <<chunk, run, clock, nextUuid, handed, pre, llm_out, rule_out,
                   persistFailed, returns, raisedBy,
                   prompt, other, tasks,
                   semaphore>>

\* vector_db.py line 498: embed_text raises inside update_object, outside its try
UpsertRaises ==
    /\ pc = "match"
    /\ LET local_obj == LocalObjects(chunk)[cursor]
       IN  /\ check_for_match(local_obj, found)
           /\ EmbeddedFields(merge_objects(local_obj, found)) # {}
    /\ pc' = "raised"
    /\ raisedBy' = "update_object"
    /\ UNCHANGED <<chunk, store, id_map, cursor, found, run, clock, nextUuid, handed,
                   pre, llm_out, rule_out, failedUpserts, persistFailed, returns,
                   compared, queried,
                   prompt, upsert, other, tasks,
                   semaphore>>

\* phase 2, lines 136-140
RemapConnections ==
    /\ pc = "remap"
    /\ chunk' = [chunk EXCEPT !.connections = Remap(@, id_map)]
    /\ pc' = "prune"
    /\ compared' = NoPair
    /\ UNCHANGED <<store, id_map, cursor, found, run, clock, nextUuid, handed, pre,
                   llm_out, rule_out, failedUpserts, persistFailed, returns, raisedBy,
                   queried,
                   prompt, upsert, other, tasks,
                   semaphore>>

\* phase 3, lines 143-160
PruneAndClear ==
    /\ pc = "prune"
    /\ chunk' = Prune(chunk, id_map)
    /\ pc' = "persist"
    /\ UNCHANGED <<store, id_map, cursor, found, run, clock, nextUuid, handed, pre,
                   llm_out, rule_out, failedUpserts, persistFailed, returns, raisedBy,
                   compared, queried,
                   prompt, upsert, other, tasks,
                   semaphore>>

\* the global records of the categories that are merged
GlobalRecords(db) ==
    {o \in db : \E cls \in {"Event", "Person", "ThoughtReflection", "Problem",
                               "Achievement", "FutureIntention"} :
                    o.collection = CollectionName(cls)}

\* what the batches of one store_chunks call did: all went through, all
\* embeddings failed, all batches failed, or one collection's batch failed
PersistOutcomes(c) ==
    {[k \in CollectionsOf(c) |-> r] : r \in {"ok", "novec", "fail"}}
    \cup {[k \in CollectionsOf(c) |-> IF k = x THEN "fail" ELSE "ok"] : x \in CollectionsOf(c)}

\* line 163: db.store_chunks([chunk]), which catches every exception, and return
Persist ==
    /\ pc = "persist"
    /\ \E outcome \in PersistOutcomes(chunk) :
          /\ store' = store_chunks(store, chunk, outcome, nextUuid)
          /\ persistFailed' = {k \in CollectionsOf(chunk) : outcome[k] = "fail"}
          /\ returns' = Append(returns, [records |-> Cardinality(GlobalRecords(store')),
                                         failed |-> persistFailed'])
    /\ nextUuid' = nextUuid + Len(InstancesData(chunk))
    /\ handed' = Append(handed, chunk)
    /\ pc' = "done"
    /\ UNCHANGED <<chunk, id_map, cursor, found, run, clock, pre, llm_out, rule_out,
                   failedUpserts, raisedBy,
                   compared, queried,
                   prompt, upsert, other, tasks,
                   semaphore>>

Next ==
    \/ CreateLocalConnections
    \/ DiscoveryRaises
    \/ BeginMerge
    \/ Search
    \/ NoMatch
    \/ MergeAndMap
    \/ UpsertRaises
    \/ RemapConnections
    \/ PruneAndClear
    \/ Persist

Spec == Init /\ [][Next]_vars

\* the same pipeline with a caller that retries the merge of the segment
RetryInit ==
    /\ Init
    /\ chunk = SegmentAnna
    /\ store \in {{}, {GlobalAnna}}

RetryNext == Next \/ MergeAgain

SpecRetry == RetryInit /\ [][RetryNext]_vars

-----------------------------------------------------------------------------
(* check_for_match and merge_objects called on one (local, global) pair:   *)
(* the local record as extraction builds it, the global one as             *)
(* search_database hands it back.                                          *)

Birthday == <<"B", "i", "r", "t", "h", "d", "a", "y">>
Berlin == <<"B", "e", "r", "l", "i", "n">>
Noon == <<"n", "o", "o", "n">>
Marta == <<"M", "a", "r", "t", "a">>
\* two long names that differ in their last four letters
Schulzky == <<"A", "n", "n", "a", " ", "M", "a", "r", "i", "a", " ", "S", "c", "h", "u", "l", "z", "k", "y">>
Schubert == <<"A", "n", "n", "a", " ", "M", "a", "r", "i", "a", " ", "S", "c", "h", "u", "b", "e", "r", "t">>

PairLocals ==
    {Event("L1", t, Fun, w, p, n) :
        t \in {Birthday, <<"T", "r", "i", "p">>}, w \in {<<>>, Noon}, p \in {<<>>, Berlin},
        n \in {<<>>, <<Anna>>}}
    \cup {Person("L1", n, a, d, r) :
        n \in {None, Anna, Marta, Schulzky}, a \in {None, <<"A", "n", "n">>},
        d \in {None, Fun}, r \in {None, <<"f", "r", "i", "e", "n", "d">>}}
    \cup {ThoughtReflection("L1", Idea, Fun, e, n) :
        e \in {<<>>, Lower(Happy)}, n \in {<<>>, <<Anna>>}}
    \cup {Problem("L1", Work, d, n, e) :
        d \in {<<>>, Fun}, n \in {<<>>, <<Anna>>}, e \in {<<>>, <<Lower(Happy)>>}}
    \cup {Achievement("L1", Win, Fun, n, e) :
        n \in {<<>>, <<Anna>>}, e \in {<<>>, <<Lower(Happy)>>}}
    \cup {FutureIntention("L1", Party, Fun, n) : n \in {<<>>, <<Anna>>}}
    \cup {Emotion("L1", Happy, Fun, <<"s", "t", "r", "o", "n", "g">>)}

PairGlobals ==
    {Event("G1", Lower(Birthday), Late, w, p, n) :
        w \in {<<>>, <<"d", "u", "s", "k">>}, p \in {<<>>, <<"B", "e", "r", "n">>}, n \in {<<>>, <<Marta>>}}
    \cup {Person("G1", n, a, d, r) :
        n \in {<<>>, <<"M", "a", "r", "t", "y">>, <<"A", "n", "n", "e">>, Schubert}, a \in {None, <<"A", "n", "n", "a", " ", "M">>},
        d \in {<<>>, Late}, r \in {<<>>, <<"s", "i", "s", "t", "e", "r">>}}
    \cup {ThoughtReflection("G1", t, Late, e, n) :
        t \in {Lower(Idea), Work}, e \in {<<>>, <<"s", "a", "d">>}, n \in {<<>>, <<Marta>>}}
    \cup {Problem("G1", Lower(Work), Late, n, e) :
        n \in {<<>>, <<Marta>>}, e \in {<<>>, <<<<"s", "a", "d">>>>}}
    \cup {Achievement("G1", Lower(Win), Late, n, e) :
        n \in {<<>>, <<Marta>>}, e \in {<<>>, <<<<"s", "a", "d">>>>}}
    \cup {FutureIntention("G1", Lower(Party), Late, n) : n \in {<<>>, <<Marta>>}}
    \cup {Emotion("G1", Lower(Happy), Late, <<"w", "e", "a", "k">>)}
    \cup {NoResult}

PairInit ==
    /\ pc = "pair"
    /\ compared \in {[local |-> l, global |-> g, match |-> FALSE, merged |-> NoResult] :
                        l \in PairLocals, g \in PairGlobals}
    /\ chunk = SegmentAnna
    /\ store = {}
    /\ id_map = EmptyMap
    /\ cursor = 0
    /\ found = NoResult
    /\ run = 0
    /\ clock = 0
    /\ nextUuid = 0
    /\ handed = <<>>
    /\ pre = chunk
    /\ llm_out = 0
    /\ rule_out = <<>>
    /\ failedUpserts = {}
    /\ persistFailed = {}
    /\ returns = <<>>
    /\ raisedBy = "none"
    /\ queried = NoQuery
    /\ prompt = NoPrompt
    /\ upsert = NoUpsert
    /\ other = NoOther
    /\ tasks = NoTasks
    /\ semaphore = PARALLEL_LIMIT

\* check_for_match(local_object, global_object)
CheckForMatch ==
    /\ pc = "pair"
    /\ pc' = "checked"
    /\ compared' = [compared EXCEPT
                        !.match = check_for_match(compared.local, compared.global)]
    /\ UNCHANGED <<chunk, store, id_map, cursor, found, run, clock, nextUuid, handed,
                   pre, llm_out, rule_out, failedUpserts, persistFailed, returns,
                   raisedBy, queried,
                   prompt, upsert, other, tasks,
                   semaphore>>

\* merge_objects(local_object, global_object)
MergeObjects ==
    /\ pc = "checked"
    /\ pc' = "merged"
    /\ compared' = [compared EXCEPT
                        !.merged = merge_objects(compared.local, compared.global)]
    /\ UNCHANGED <<chunk, store, id_map, cursor, found, run, clock, nextUuid, handed,
                   pre, llm_out, rule_out, failedUpserts, persistFailed, returns,
                   raisedBy, queried,
                   prompt, upsert, other, tasks,
                   semaphore>>

PairNext == CheckForMatch \/ MergeObjects

SpecPair == PairInit /\ [][PairNext]_vars

-----------------------------------------------------------------------------
(* Encoder._stage_two: one call_llm task per flagged category of every     *)
(* chunk, all sharing asyncio.Semaphore(PARALLEL_LIMIT). The tasks run the *)
(* same code, so tasks counts them by position.                            *)

\* the most tasks stage two starts
MaxTasks == 11

Rest == <<pc, chunk, store, id_map, cursor, found, run, clock, nextUuid, handed,
          pre, llm_out, rule_out, failedUpserts, persistFailed, returns, raisedBy,
          compared, queried, prompt, upsert, other>>

\* one task goes from one position to another
Move(from, to) ==
    [p \in Positions |->
        IF p = from THEN tasks[p] - 1 ELSE IF p = to THEN tasks[p] + 1 ELSE tasks[p]]

\* the free slots after "async with semaphore" has been left by a return
AfterReturn(free) == free + 1

\* the free slots when the exception has left "async with semaphore" and the
\* except clause runs
AfterExceptionKeepsSlot(free) == free

AfterException(free) == free + 1

\* lines 232-236: asyncio.gather over the chunks, create_task per category
StageTwoInit ==
    /\ pc = "stage two"
    /\ \E n \in 1..MaxTasks : tasks = [NoTasks EXCEPT ![<<"waiting", 0>>] = n]
    /\ semaphore = PARALLEL_LIMIT
    /\ chunk = SegmentAnna
    /\ store = {}
    /\ id_map = EmptyMap
    /\ cursor = 0
    /\ found = NoResult
    /\ run = 0
    /\ clock = 0
    /\ nextUuid = 0
    /\ handed = <<>>
    /\ pre = chunk
    /\ llm_out = 0
    /\ rule_out = <<>>
    /\ failedUpserts = {}
    /\ persistFailed = {}
    /\ returns = <<>>
    /\ raisedBy = "none"
    /\ compared = NoPair
    /\ queried = NoQuery
    /\ prompt = NoPrompt
    /\ upsert = NoUpsert
    /\ other = NoOther

\* line 119, "async with semaphore": a waiting task takes a free slot
Acquire ==
    /\ semaphore > 0
    /\ \E attempt \in 0..(RETRIES - 1) :
          /\ tasks[<<"waiting", attempt>>] > 0
          /\ tasks' = Move(<<"waiting", attempt>>, <<"calling", attempt>>)
    /\ semaphore' = semaphore - 1
    /\ UNCHANGED Rest

\* lines 120-122: generate_structured_async returns, and so does call_llm
Succeed ==
    /\ \E attempt \in 0..(RETRIES - 1) :
          /\ tasks[<<"calling", attempt>>] > 0
          /\ tasks' = Move(<<"calling", attempt>>, <<"returned", 0>>)
    /\ semaphore' = AfterReturn(semaphore)
    /\ UNCHANGED Rest

\* lines 123-131: the call raises; the last attempt returns None, an earlier
\* one goes into asyncio.sleep(2 ** attempt)
Fail ==
    /\ \E attempt \in 0..(RETRIES - 1) :
          /\ tasks[<<"calling", attempt>>] > 0
          /\ tasks' = Move(<<"calling", attempt>>,
                           IF attempt = RETRIES - 1 THEN <<"returned", 0>>
                           ELSE <<"backoff", attempt>>)
    /\ semaphore' = AfterException(semaphore)
    /\ UNCHANGED Rest

\* line 131 returns: the next attempt of the for loop begins
WakeUp ==
    /\ \E attempt \in 0..(RETRIES - 2) :
          /\ tasks[<<"backoff", attempt>>] > 0
          /\ tasks' = Move(<<"backoff", attempt>>, <<"waiting", attempt + 1>>)
    /\ UNCHANGED <<semaphore, Rest>>

StageTwoNext == Acquire \/ Succeed \/ Fail \/ WakeUp

SpecStageTwo == StageTwoInit /\ [][StageTwoNext]_vars

-----------------------------------------------------------------------------
(* Encoder.encode with store=True: after the merge, _store_in_weaviate.    *)

\* lines 263-286: the collections that are deleted: all of them, none (the
\* listing failed), or all but one whose deletion failed
DeleteOutcomes(db) ==
    LET all == {o.collection : o \in db}
    IN  {all, {}} \cup {all \ {c} : c \in all}

\* encoder.py lines 259-293, called on lines 345 and 370
StoreInWeaviate ==
    /\ pc = "done"
    /\ pc' = "stored"
    /\ \E connected \in BOOLEAN :
          IF connected
          THEN \E deleted \in DeleteOutcomes(store) : \E outcome \in PersistOutcomes(chunk) :
                  /\ store' = store_chunks({o \in store : o.collection \notin deleted},
                                           chunk, outcome, nextUuid)
                  /\ nextUuid' = nextUuid + Len(InstancesData(chunk))
                  /\ handed' = Append(handed, chunk)
          ELSE UNCHANGED <<store, nextUuid, handed>>
    /\ UNCHANGED <<chunk, id_map, cursor, found, run, clock, pre, llm_out, rule_out,
                   failedUpserts, persistFailed, returns, raisedBy, compared, queried,
                   prompt, upsert, other, tasks, semaphore>>

\* encode on a segment with one Person, against an empty store and against a
\* store that holds the Person
EncodeInit ==
    /\ Init
    /\ chunk = SegmentAnna
    /\ store \in {{}, {GlobalAnna}}

EncodeNext == Next \/ StoreInWeaviate

SpecEncode == EncodeInit /\ [][EncodeNext]_vars

-----------------------------------------------------------------------------
(* A second merge_chunk_with_global_graph call that runs against the same  *)
(* store while the first one is under way. Neither call takes a lock and   *)
(* the store offers no transaction, so their store calls interleave freely.*)

\* lines 121-129 of the second call: its segment holds one Person named like
\* the Person of the first segment; search_database on the store as it is now
OtherSearch ==
    /\ other.pc = "idle"
    /\ LET segment == [Chunk("K2", <<>>, <<Person("P9", Anna, None, Idea, None)>>,
                              <<>>, <<>>, <<>>, <<>>, <<>>) EXCEPT !.connections = <<>>]
           local_obj == LocalObjects(segment)[1]
           fields == Range(VectorQueryFields(local_obj))
       IN  \E text_out \in QueryOutcomes(TextCandidates(store, local_obj), TextScores, -1) :
           \E vec_out \in [fields -> UNION {QueryOutcomes(VectorCandidates(store, local_obj, f),
                                                          Distances, 1) : f \in fields}] :
              /\ \A f \in fields :
                    vec_out[f] \in QueryOutcomes(VectorCandidates(store, local_obj, f), Distances, 1)
              /\ LET global_obj == search_database(local_obj, text_out, vec_out)
                 IN  other' = IF global_obj = Raised
                               THEN [pc |-> "raised", chunk |-> segment, found |-> NoResult]
                               ELSE [pc |-> "match", chunk |-> segment, found |-> global_obj]
    /\ UNCHANGED <<pc, chunk, store, id_map, cursor, found, run, clock, nextUuid, handed,
                   pre, llm_out, rule_out, failedUpserts, persistFailed, returns, raisedBy,
                   compared, queried, prompt, upsert, tasks, semaphore>>

\* lines 130-160 of the second call: on a match merge, upsert and map, then
\* remap and prune (both touch the call's own segment only)
OtherMerge ==
    /\ other.pc = "match"
    /\ LET local_obj == LocalObjects(other.chunk)[1]
       IN  IF check_for_match(local_obj, other.found)
           THEN \E embed_ok, fetch_ok, write_ok \in BOOLEAN :
                   IF embed_ok
                   THEN LET done == update_object(store, merge_objects(local_obj, other.found),
                                                  fetch_ok, write_ok)
                            map == Put(EmptyMap, local_obj.object_id, other.found.object_id)
                        IN  /\ store' = done.store
                            /\ other' = [other EXCEPT
                                           !.pc = "persist",
                                           !.chunk = Prune([@ EXCEPT !.connections =
                                                               Remap(@, map)], map)]
                   ELSE /\ other' = [other EXCEPT !.pc = "raised"]
                        /\ store' = store
           ELSE /\ other' = [other EXCEPT !.pc = "persist"]
                /\ store' = store
    /\ UNCHANGED <<pc, chunk, id_map, cursor, found, run, clock, nextUuid, handed,
                   pre, llm_out, rule_out, failedUpserts, persistFailed, returns, raisedBy,
                   compared, queried, prompt, upsert, tasks, semaphore>>

\* line 163 of the second call: db.store_chunks([chunk])
OtherPersist ==
    /\ other.pc = "persist"
    /\ \E outcome \in PersistOutcomes(other.chunk) :
          store' = store_chunks(store, other.chunk, outcome, nextUuid)
    /\ nextUuid' = nextUuid + Len(InstancesData(other.chunk))
    /\ other' = [other EXCEPT !.pc = "done"]
    /\ UNCHANGED <<pc, chunk, id_map, cursor, found, run, clock, handed,
                   pre, llm_out, rule_out, failedUpserts, persistFailed, returns, raisedBy,
                   compared, queried, prompt, upsert, tasks, semaphore>>

\* the first segment holds a Person named Anna too; the store starts empty
ConcurrentInit ==
    /\ Init
    /\ chunk = SegmentAnna
    /\ store = {}

ConcurrentNext == Next \/ OtherSearch \/ OtherMerge \/ OtherPersist

SpecConcurrent == ConcurrentInit /\ [][ConcurrentNext]_vars

\* ---------------------------------------------------------------------------
\* Properties
\* ---------------------------------------------------------------------------

\* every record of a segment, emotions included
SegmentRecords(c) == AllObjects(c) \o c.emotions

\* the identifiers under which the global store knows a record: its UUID and
\* its object_id property
StoreIds(db) ==
    {o.uuid : o \in db}
    \cup {o.properties.object_id : o \in {x \in db : "object_id" \in DOMAIN x.properties}}

Endpoints(edge) == {edge.source_id, edge.target_id}

\* C1: every edge handed to store_chunks has a source and a target that each
\* identify a record still held by the segment or a record of the global store
C1_NoDanglingEdgePersisted ==
    \A i \in 1..Len(handed) : \A j \in 1..Len(handed[i].connections) :
        Endpoints(handed[i].connections[j])
            \subseteq ObjectIds(SegmentRecords(handed[i])) \cup StoreIds(store)

\* C2: every edge in the list create_local_graph_connections returns has its
\* source and its target among the identifiers of the segment's own records
C2_ReturnedEdgesAreLocal ==
    pc = "merge" =>
        \A j \in 1..Len(chunk.connections) :
            Endpoints(chunk.connections[j]) \subseteq ObjectIds(SegmentRecords(chunk))

\* C3: after phase 2 no edge of the segment has a source or a target that is a
\* key of the identifier map
C3_NoEdgeReferencesMappedKey ==
    pc \in {"prune", "persist", "done"} =>
        \A j \in 1..Len(chunk.connections) :
            Endpoints(chunk.connections[j]) \cap DOMAIN id_map = {}

\* C4: a second run on the same segment leaves as many global records as the
\* first run left (both runs returned and every batch of both went through)
C4_SecondRunKeepsRecordCount ==
    (Len(returns) >= 2 /\ returns[1].failed = {} /\ returns[2].failed = {}) =>
        returns[2].records = returns[1].records

\* C5: the identifier of a local record whose merged record update_object
\* failed to persist is not a key of the identifier map
C5_FailedUpsertNotMapped == failedUpserts \cap DOMAIN id_map = {}

\* C6: a collaborator that throws while one record is resolved or persisted
\* does not stop phase 1: the records after it are still visited
C6_FailureDoesNotStopPhase1 ==
    (pc = "raised" /\ raisedBy \in {"text_search", "update_object"}) =>
        cursor >= Len(LocalObjects(chunk))

\* C7: when the persistence call of phase 3 fails, the merge does not return
\* normally
C7_PersistFailureReported == pc = "done" => persistFailed = {}

\* C8: search_database never propagates an exception of one of its queries
C8_SearchNeverRaises == ~(pc = "raised" /\ raisedBy = "text_search")

\* the segment of the end-to-end scenario: a Person named Anna and an Event
\* whose participants list holds Anna
AnnaScenario(c) == [c EXCEPT !.connections = <<>>] = SegmentAnna

ParticipatedIn(connections) ==
    SelectSeq(connections, LAMBDA e : e.type = "participated in")

\* C9: for the Anna segment the builder yields one Event-to-Person edge
\* labelled 'participated in'; when the resolver matched the Person with the
\* global record G1 and the merge returned, the Person is no longer in the
\* segment, that edge's target is G1, and the persisted segment holds the
\* Event (when it was not matched itself) and the remapped edge
C9_AnnaEndToEnd ==
    /\ (pc = "merge" /\ AnnaScenario(chunk)) =>
          /\ rule_out = <<Connection("E1", "P1", "participated in", 1)>>
          /\ Len(ParticipatedIn(chunk.connections)) = 1
          /\ ParticipatedIn(chunk.connections)[1].source_id = "E1"
          /\ ParticipatedIn(chunk.connections)[1].target_id = "P1"
          /\ llm_out = 0 => Len(chunk.connections) = 1
    /\ (/\ pc = "done" /\ run = 1 /\ AnnaScenario(pre)
        /\ "P1" \in DOMAIN id_map /\ id_map["P1"] = "G1") =>
          /\ "P1" \notin ObjectIds(chunk.people)
          /\ Len(ParticipatedIn(chunk.connections)) = 1
          /\ ParticipatedIn(chunk.connections)[1].target_id = "G1"
          /\ handed[Len(handed)] = chunk
          /\ "E1" \notin DOMAIN id_map =>
                /\ "E1" \in ObjectIds(chunk.events)
                /\ ParticipatedIn(chunk.connections)[1].source_id = "E1"
          /\ persistFailed = {} =>
                \E o \in store :
                    /\ o.collection = "Connection"
                    /\ o.properties.type = "participated in"
                    /\ o.properties.target_id = "G1"

C9_Witness ==
    /\ pc = "done" /\ run = 1 /\ AnnaScenario(pre)
    /\ "P1" \in DOMAIN id_map /\ id_map["P1"] = "G1"
    /\ "E1" \notin DOMAIN id_map
    /\ persistFailed = {}

EmotionIds == ObjectIds(pre.emotions)

\* C10: the merge never resolves, merges, upserts, removes or modifies an
\* Emotion record: the emotions list stays what it was when the call began
\* and no identifier of an Emotion is a key of the identifier map
C10_EmotionsUntouched ==
    run >= 1 =>
        /\ chunk.emotions = pre.emotions
        /\ EmotionIds \cap DOMAIN id_map = {}
        /\ pc \in {"search", "match"} => LocalObjects(chunk)[cursor].cls # "Emotion"
        /\ \A o \in store : o.collection = "ChunkEmotion" => o.uuid \notin EmotionIds

C10_Witness ==
    /\ pc = "done"
    /\ pre.emotions # <<>>
    /\ DOMAIN id_map # {}
    /\ \E o \in store : o.collection = "ChunkEmotion" /\ o.properties.object_id \in EmotionIds

IdsOf(objs) == [i \in 1..Len(objs) |-> objs[i].object_id]

ConnectorLists == {"participants", "people_mentioned", "people", "emotions"}

\* a record apart from its connector fields
Core(obj) == [f \in DOMAIN obj \ (ConnectorLists \cup {"emotion"}) |-> obj[f]]

\* C11: after phase 3 each non-emotion list of the segment holds exactly the
\* records it held when the merge began whose identifier is not a key of the
\* identifier map, in their order: every mapped record is gone, no other is
C11_PrunedExactlyMapped ==
    pc \in {"persist", "done"} =>
        \A k \in 1..Len(categories) :
            LET before == pre[categories[k]]
                after == chunk[categories[k]]
                unmapped == SelectSeq(before, LAMBDA o : o.object_id \notin DOMAIN id_map)
            IN  /\ IdsOf(after) = IdsOf(unmapped)
                /\ \A i \in 1..Len(after) : Core(after[i]) = Core(unmapped[i])

C11_Witness ==
    /\ pc = "done"
    /\ \E k \in 1..Len(categories) : Len(chunk[categories[k]]) > 0
    /\ \E k \in 1..Len(categories) : Len(chunk[categories[k]]) < Len(pre[categories[k]])

HasConnectors(obj) ==
    \E f \in ConnectorLists \cap DOMAIN obj : obj[f] # <<>>

\* C12: after phase 3 every record left in a non-emotion category has empty
\* participants, people_mentioned, people and emotions lists, and the segment
\* handed to store_chunks already has them empty
C12_ConnectorFieldsCleared ==
    /\ pc \in {"persist", "done"} =>
          \A i \in 1..Len(LocalObjects(chunk)) : ~HasConnectors(LocalObjects(chunk)[i])
    /\ \A n \in 1..Len(handed) :
          \A i \in 1..Len(LocalObjects(handed[n])) : ~HasConnectors(LocalObjects(handed[n])[i])

C12_Witness ==
    /\ pc = "done"
    /\ \E i \in 1..Len(LocalObjects(pre)) :
          /\ HasConnectors(LocalObjects(pre)[i])
          /\ LocalObjects(pre)[i].object_id \in Range(IdsOf(LocalObjects(handed[Len(handed)])))

\* C13: for a matched pair the record merge_objects returns carries the
\* global record's identifier, the identifier map holds local identifier ->
\* that identifier, and the upsert (when it went through) left the merged
\* record in the store under that identifier
C13_MergedUnderGlobalId ==
    compared.match =>
        /\ compared.merged.cls = compared.global.cls
        /\ compared.merged.object_id = compared.global.object_id
        /\ compared.local.object_id \in DOMAIN id_map
        /\ id_map[compared.local.object_id] = compared.global.object_id
        /\ compared.local.object_id \notin failedUpserts =>
              \E o \in store :
                  /\ o.uuid = compared.global.object_id
                  /\ o.collection = CollectionName(compared.global.cls)
                  /\ LET given == _extract_model_properties(compared.merged, "")
                     IN  \A f \in DOMAIN given : o.properties[f] = given[f]

C13_Witness ==
    /\ pc = "remap"
    /\ compared.match
    /\ compared.local.cls = "Achievement"
    /\ compared.local.object_id # compared.global.object_id
    /\ compared.local.object_id \notin failedUpserts

\* the pair handed to check_for_match has been decided
Decided == pc \in {"checked", "merged"}

\* both records are of one class that has a title
SameTitledType(l, g) == l.cls = g.cls /\ "title" \in DOMAIN l

\* C14: two records of the same titled type whose titles are non-empty and
\* equal ignoring case are a match, whatever their other fields hold
C14_EqualTitlesMatch ==
    (/\ Decided
     /\ SameTitledType(compared.local, compared.global)
     /\ compared.local.title # <<>>
     /\ Lower(compared.local.title) = Lower(compared.global.title))
        => compared.match

\* an Event pair "Birthday" / "birthday" that differs in description, time,
\* place and participants, and is a match
C14_Witness ==
    /\ pc = "checked"
    /\ compared.local.cls = "Event" /\ compared.global.cls = "Event"
    /\ compared.local.title = Birthday
    /\ compared.global.title = Lower(Birthday)
    /\ compared.local.title # compared.global.title
    /\ compared.local.description # compared.global.description
    /\ compared.local.time # <<>> /\ compared.global.time # <<>>
    /\ compared.local.time # compared.global.time
    /\ compared.local.location # compared.global.location
    /\ compared.local.participants # compared.global.participants
    /\ compared.match

\* a Person pair has been decided
PersonPair == Decided /\ compared.local.cls = "Person" /\ compared.global.cls = "Person"

\* one name is found in the other record's alias
AliasHit(l, g) ==
    \/ Truthy(l.name) /\ Truthy(g.alias) /\ Contains(Lower(g.alias), Lower(l.name))
    \/ Truthy(l.alias) /\ Truthy(g.name) /\ Contains(Lower(l.alias), Lower(g.name))

\* both descriptions are given and at least 0.7 similar
DescriptionHit(l, g) ==
    /\ Truthy(l.description) /\ Truthy(g.description)
    /\ LET s == fuzzy_similarity(l.description, g.description) IN 10 * s[1] >= 7 * s[2]

\* only the name-to-name rule can make the pair a match
OnlyNames == PersonPair /\ ~AliasHit(compared.local, compared.global)
                        /\ ~DescriptionHit(compared.local, compared.global)

\* the name-to-name similarity of the pair, as a fraction
NameSimilarity == fuzzy_similarity(compared.local.name, compared.global.name)

\* C15: a Person pair that no alias and no description rule matches is a match
\* when the similarity of the names is 0.8 or more, and is none when it is
\* less: the threshold 0.8 is inclusive
C15_NameThresholdInclusive ==
    OnlyNames =>
        /\ 10 * NameSimilarity[1] >= 8 * NameSimilarity[2] => compared.match
        /\ 10 * NameSimilarity[1] < 8 * NameSimilarity[2] => ~compared.match

\* "Marta" / "Marty": four of five letters, similarity exactly 0.8, a match
C15_Witness ==
    /\ OnlyNames
    /\ compared.local.name = Marta
    /\ 10 * NameSimilarity[1] = 8 * NameSimilarity[2]
    /\ compared.match

\* two names of similarity 30/38 = 0.79 that are no match
C15_JustBelow ==
    /\ OnlyNames
    /\ NameSimilarity = <<30, 38>>
    /\ ~compared.match

\* a matched Event pair has been merged
MergedEvents ==
    /\ pc = "merged" /\ compared.match
    /\ compared.local.cls = "Event" /\ compared.global.cls = "Event"

\* the separators merge_objects puts between the two values
NewlineSeparator == <<" ", "\n", " ">>
SlashSeparator == <<" ", "/", " ">>

\* C16: the merged Event's description is the local one, the newline
\* separator, the global one; its location is "global / local" when the local
\* location is non-empty and the global location alone when it is empty
C16_EventDescriptionAndLocation ==
    MergedEvents =>
        /\ compared.merged.description =
              compared.local.description \o NewlineSeparator \o compared.global.description
        /\ compared.local.location # <<>> =>
              compared.merged.location =
                  compared.global.location \o SlashSeparator \o compared.local.location
        /\ compared.local.location = <<>> =>
              compared.merged.location = compared.global.location

\* local location "", global location "Bern": the merged location is "Bern"
C16_Witness ==
    /\ MergedEvents
    /\ compared.local.location = <<>>
    /\ compared.global.location = <<"B", "e", "r", "n">>
    /\ compared.merged.location = <<"B", "e", "r", "n">>
    /\ compared.merged.description = <<"f", "u", "n", " ", "\n", " ", "l", "a", "t", "e">>

\* C17: the merged Event's time is the global time when that is present and
\* the local time otherwise; its participants are the global list when that
\* is non-empty and the local list otherwise
C17_EventTimeAndParticipants ==
    MergedEvents =>
        /\ compared.merged.time =
              (IF compared.global.time # <<>> THEN compared.global.time
               ELSE compared.local.time)
        /\ compared.merged.participants =
              (IF compared.global.participants # <<>> THEN compared.global.participants
               ELSE compared.local.participants)

\* a matched pair of a merged type other than Event has been merged
MergedOthers ==
    /\ pc = "merged" /\ compared.match
    /\ compared.local.cls = compared.global.cls
    /\ compared.local.cls \in
          {"Person", "ThoughtReflection", "Problem", "Achievement", "FutureIntention"}

\* the text of a value: an absent one has none
Text(v) == IF v = None THEN <<>> ELSE v

\* "local / global" when the local value is non-empty, else the global value
LocalSlashGlobal(l, g) ==
    IF Text(l) # <<>> THEN Text(l) \o SlashSeparator \o Text(g) ELSE g

\* C18: for a matched pair of a type other than Event the merged record has
\* the global title (or name), the local description followed by the global
\* one, every list-valued field from the global record unless it is empty
\* there, and for a Person the alias and the relationship "local / global"
\* when the local value is non-empty and the global value otherwise
C18_OtherTypesMerged ==
    MergedOthers =>
        LET l == compared.local
            g == compared.global
            m == compared.merged
        IN  /\ m.cls = g.cls
            /\ "title" \in DOMAIN g => m.title = g.title
            /\ "name" \in DOMAIN g => m.name = g.name
            /\ m.description = Text(l.description) \o NewlineSeparator \o Text(g.description)
            /\ \A f \in {"people_mentioned", "people", "emotions"} \cap DOMAIN g :
                  m[f] = IF g[f] # <<>> THEN g[f] ELSE l[f]
            /\ l.cls = "Person" =>
                  /\ m.alias = LocalSlashGlobal(l.alias, g.alias)
                  /\ m.relationship_to_user =
                        LocalSlashGlobal(l.relationship_to_user, g.relationship_to_user)

\* no field of the pair is absent
NothingAbsent ==
    \A r \in {compared.local, compared.global} :
        \A f \in {"name", "alias", "description", "relationship_to_user"} \cap DOMAIN r :
            r[f] # None

\* the statement of C18 for the pairs no field of which is absent
C18_WhenNothingAbsent == NothingAbsent => C18_OtherTypesMerged

\* a matched Person pair with every field given, merged with both slashes
C18_AllGiven ==
    /\ MergedOthers /\ NothingAbsent
    /\ compared.local.cls = "Person"
    /\ compared.local.alias # <<>> /\ compared.local.relationship_to_user # <<>>
    /\ compared.global.alias # <<>> /\ compared.global.relationship_to_user # <<>>

\* merge_objects has been called on records of different types
MergedMismatch == pc = "merged" /\ compared.local.cls # compared.global.cls

\* C19: called with a local and a global record of different types,
\* merge_objects raises nothing and returns the global record, every field
\* as it was
C19_MismatchReturnsGlobal ==
    MergedMismatch =>
        /\ compared.merged # Raised
        /\ compared.merged = compared.global

\* a Person merged into an Event: the Event comes back
C19_Witness ==
    /\ MergedMismatch
    /\ compared.local.cls = "Person"
    /\ compared.global.cls = "Event"
    /\ compared.global.participants # <<>>
    /\ compared.merged.cls = "Event"
    /\ compared.merged.object_id = "G1"

\* search_database has returned for the record under the cursor
Searched == pc = "match"

\* the (candidate, weighted score) pairs of the hits the queries returned: a
\* lexical hit of score s weighs s * 0.4, a vector hit at distance d weighs
\* 1 / (1 + d) * 0.6 (scores and distances are in tenths)
LexicalPairs ==
    {[model |-> TextModel(queried.text.hits[i][1]),
      score |-> <<4 * queried.text.hits[i][2], 100>>] :
        i \in 1..Len(queried.text.hits)}

VectorPairs ==
    UNION {{[model |-> VectorModel(queried.vec[f].hits[i][1]),
             score |-> <<6, 10 + queried.vec[f].hits[i][2]>>] :
                i \in 1..Len(queried.vec[f].hits)} : f \in DOMAIN queried.vec}

AllPairs == LexicalPairs \cup VectorPairs

\* C20: search_database returns the candidate of a pair of maximum weighted
\* score among all pairs of the lexical and the vector queries, and returns
\* none exactly when no query returned a result
C20_BestOfAllPairs ==
    Searched =>
        /\ found = NoResult <=> AllPairs = {}
        /\ found # NoResult =>
              \E p \in AllPairs :
                  /\ p.model = found
                  /\ \A q \in AllPairs : q.score[1] * p.score[2] <= p.score[1] * q.score[2]

\* no hit of a vector query is a record whose model cannot be built
EveryModelBuilds ==
    \A f \in DOMAIN queried.vec :
        \A i \in 1..Len(queried.vec[f].hits) : ~VectorModelFails(queried.vec[f].hits[i][1])

\* the statement of C20 for the searches every hit of which yields a model
C20_WhenEveryModelBuilds == EveryModelBuilds => C20_BestOfAllPairs

\* a search with lexical and vector hits, all of which yield a model
C20_BothQueriesHit ==
    /\ Searched /\ EveryModelBuilds
    /\ LexicalPairs # {} /\ VectorPairs # {}
    /\ \E p \in LexicalPairs : \E q \in VectorPairs : p.score # q.score

\* create_local_graph_connections has returned and the merge has not begun
Built == pc = "merge"

\* the returned list holds an edge from source to target of the given type
HasEdge(source, target, type) ==
    \E i \in 1..Len(chunk.connections) :
        /\ chunk.connections[i].source_id = source
        /\ chunk.connections[i].target_id = target
        /\ chunk.connections[i].type = type

\* the name is contained, ignoring case, in the person's name or alias
NamesPerson(name, person) ==
    \/ person.name # None /\ person.name # <<>> /\ Contains(Lower(person.name), Lower(name))
    \/ person.alias # None /\ person.alias # <<>> /\ Contains(Lower(person.alias), Lower(name))

\* the emotion words a thought, a problem or an achievement names
EmotionWords(r) ==
    IF r.cls = "ThoughtReflection" THEN (IF r.emotion # <<>> THEN {r.emotion} ELSE {})
    ELSE Range(r.emotions)

\* every participant of an event that names a person of the segment has its
\* "participated in" edge in the returned list
PeopleEdgesKept ==
    \A i \in 1..Len(chunk.events) : \A j \in 1..Len(chunk.people) :
        \A name \in Range(chunk.events[i].participants) :
            NamesPerson(name, chunk.people[j]) =>
                HasEdge(chunk.events[i].object_id, chunk.people[j].object_id,
                        "participated in")

\* every emotion word that is the title of an Emotion of the segment has its
\* "related to" edge in the returned list
EmotionEdgesKept ==
    LET sources == chunk.thoughts \o chunk.problems \o chunk.achievements
    IN  \A i \in 1..Len(sources) : \A j \in 1..Len(chunk.emotions) :
            \A word \in EmotionWords(sources[i]) :
                (chunk.emotions[j].title # <<>>
                 /\ Lower(word) = Lower(chunk.emotions[j].title)) =>
                    HasEdge(sources[i].object_id, chunk.emotions[j].object_id, "related to")

\* C23: the list create_local_graph_connections returns holds every rule-pass
\* edge between two records of the segment, the "participated in" edges to
\* people and the "related to" edges to emotions; validation discards none
C23_RuleEdgesSurvive == Built => PeopleEdgesKept /\ EmotionEdgesKept

\* the statement of C23 for the edges to people alone
C23_PeopleEdgesSurvive == Built => PeopleEdgesKept

\* the discovery call has been made (it returned or it raised)
Asked == pc \notin {"build", "pair", "checked", "merged"}

\* the (source, target, type) of the edges the rule pass built
RuleEdges ==
    [i \in 1..Len(rule_out) |->
        <<rule_out[i].source_id, rule_out[i].target_id, rule_out[i].type>>]

\* the discovery call was shown the edge list the rule pass had just built
ShownRuleEdges == \A i \in 1..Len(rule_out) : \E j \in 1..Len(prompt.present) :
                      prompt.present[j] = RuleEdges[i]

\* the discovery call was shown every record of the segment
ShownEveryRecord ==
    \A i \in 1..Len(SegmentRecords(pre)) :
        SegmentRecords(pre)[i].object_id \in prompt.listed

\* C24: the discovery call is given the edge list the rule pass of the same
\* call built as its existing edges, and its listing covers every record of
\* the segment
C24_DiscoverySeesRuleEdges == Asked => ShownRuleEdges /\ ShownEveryRecord

\* the statement of C24 for the segments without emotions and rule edges
C24_WhenNothingToShow ==
    (Asked /\ rule_out = <<>> /\ pre.emotions = <<>>) => ShownRuleEdges /\ ShownEveryRecord

\* phase 2 has run and phase 3 has not
Remapped == pc = "prune"

\* C25: phase 2 changes only the endpoints that are keys of the identifier
\* map; an endpoint that is no key keeps its local identifier, no edge is
\* added or removed, and no relation label or timestamp changes
C25_RemapTouchesMappedEndpointsOnly ==
    Remapped =>
        /\ Len(chunk.connections) = Len(pre.connections)
        /\ \A i \in 1..Len(pre.connections) :
              LET before == pre.connections[i]
                  after == chunk.connections[i]
              IN  /\ after.type = before.type
                  /\ after.created_at = before.created_at
                  /\ before.source_id \notin DOMAIN id_map =>
                        after.source_id = before.source_id
                  /\ before.target_id \notin DOMAIN id_map =>
                        after.target_id = before.target_id

\* an edge one endpoint of which was rewritten and the other was not
C25_Witness ==
    /\ Remapped
    /\ \E i \in 1..Len(pre.connections) :
          /\ pre.connections[i].target_id \in DOMAIN id_map
          /\ chunk.connections[i].target_id # pre.connections[i].target_id
          /\ pre.connections[i].source_id \notin DOMAIN id_map
          /\ chunk.connections[i].source_id = pre.connections[i].source_id

\* no record of a merged category has been pruned or cleared in this call
RecordsAsGiven == \A k \in 1..Len(categories) : chunk[categories[k]] = pre[categories[k]]

\* C26: the phases run strictly in order: while records are being resolved no
\* edge is rewritten; the remap starts only when every record of every
\* non-emotion category has been resolved; no record is pruned before the
\* remap is over; and the segment is persisted exactly once, after pruning
C26_PhasesInOrder ==
    /\ pc \in {"search", "match"} =>
          /\ cursor <= Len(LocalObjects(pre))
          /\ chunk.connections = pre.connections
          /\ RecordsAsGiven
          /\ Len(handed) = run - 1
    /\ pc = "remap" =>
          /\ cursor = Len(LocalObjects(pre)) + 1
          /\ chunk.connections = pre.connections
          /\ RecordsAsGiven
          /\ Len(handed) = run - 1
    /\ pc = "prune" =>
          /\ cursor = Len(LocalObjects(pre)) + 1
          /\ \A i \in 1..Len(pre.connections) :
                /\ pre.connections[i].source_id \in DOMAIN id_map =>
                      chunk.connections[i].source_id = id_map[pre.connections[i].source_id]
                /\ pre.connections[i].target_id \in DOMAIN id_map =>
                      chunk.connections[i].target_id = id_map[pre.connections[i].target_id]
          /\ RecordsAsGiven
          /\ Len(handed) = run - 1
    /\ pc = "persist" => Len(handed) = run - 1
    /\ pc = "done" => Len(handed) = run /\ handed[run] = chunk

\* a run over two records or more that mapped one, rewrote an edge, pruned
\* and persisted once
C26_Witness ==
    /\ pc = "done"
    /\ Len(handed) = 1
    /\ Len(LocalObjects(pre)) >= 2
    /\ DOMAIN id_map # {}
    /\ chunk.connections # pre.connections
    /\ ~RecordsAsGiven

\* the stored record with the given UUID, among the people
StoredPerson(uuid) ==
    CHOOSE o \in store : o.uuid = uuid /\ o.collection = CollectionName("Person")

\* two distinct people of the segment were mapped to one global identifier
\* and both upserts went through
BothMerged(a, b) ==
    /\ a.object_id # b.object_id
    /\ a.object_id \in DOMAIN id_map /\ b.object_id \in DOMAIN id_map
    /\ id_map[a.object_id] = id_map[b.object_id]
    /\ a.object_id \notin failedUpserts /\ b.object_id \notin failedUpserts

\* C28: when two distinct records of a segment match the same global record
\* in phase 1, the global record finally stored holds the contribution of
\* both (here: both descriptions), and both identifiers map to it
C28_NoLostUpdate ==
    pc = "remap" =>
        \A i, j \in 1..Len(pre.people) :
            BothMerged(pre.people[i], pre.people[j]) =>
                /\ \E o \in store : o.uuid = id_map[pre.people[i].object_id]
                                    /\ o.collection = CollectionName("Person")
                /\ Contains(StoredPerson(id_map[pre.people[i].object_id]).properties.description,
                            Fmt(pre.people[i].description))
                /\ Contains(StoredPerson(id_map[pre.people[i].object_id]).properties.description,
                            Fmt(pre.people[j].description))

\* the statement of C28 for the stores whose records update_object wrote
C28_WhenStoredByUpsert ==
    (\A o \in GlobalRecords(store) : o.uuid = o.properties.object_id) => C28_NoLostUpdate

\* two people merged into one record that update_object had written before
C28_BothContribute ==
    /\ pc = "remap"
    /\ \E i, j \in 1..Len(pre.people) :
          /\ BothMerged(pre.people[i], pre.people[j])
          /\ pre.people[i].description = Fun /\ pre.people[j].description = Idea
          /\ \A o \in GlobalRecords(store) : o.uuid = o.properties.object_id

\* an edge has its two ends at one record
SelfLoop(conn) == conn.source_id = conn.target_id

\* C29: the remap of phase 2 turns no edge between two distinct records into
\* a self-loop
C29_NoSelfLoopFromRemap ==
    Remapped =>
        \A i \in 1..Len(pre.connections) :
            ~SelfLoop(pre.connections[i]) => ~SelfLoop(chunk.connections[i])

\* update_object has been called in this run and the store is as it left it
Called ==
    /\ upsert.model # NoResult
    /\ pc \in {"search", "match", "remap", "prune", "persist", "raised"}

\* the records of a store with the identifier and the type of a model
Held(db, model) ==
    {o \in db : /\ o.collection = CollectionName(model.cls)
                /\ o.properties.object_id = model.object_id}

\* the record holds what the model holds
Holds(o, model) ==
    LET given == _extract_model_properties(model, "")
    IN  \A f \in DOMAIN given : o.properties[f] = given[f]

\* no two records of one type have one identifier
OnePerIdentifier(db) ==
    \A o1, o2 \in GlobalRecords(db) :
        (o1.collection = o2.collection /\ o1.properties.object_id = o2.properties.object_id)
            => o1 = o2

\* C22: update_object is an upsert keyed by identifier: the store holds at
\* most one record per identifier, a call for an absent identifier creates the
\* record, a call for a present one replaces its content, and the call
\* returns False only when the store is as it was
C22_UpsertByIdentifier ==
    Called =>
        /\ OnePerIdentifier(upsert.before) => OnePerIdentifier(store)
        /\ upsert.ok =>
              /\ Held(store, upsert.model) # {}
              /\ \A o \in Held(store, upsert.model) : Holds(o, upsert.model)
        /\ ~upsert.ok => store = upsert.before

\* every global record of the store was written by update_object
WrittenByUpsert(db) == \A o \in GlobalRecords(db) : o.uuid = o.properties.object_id

\* the statement of C22 for the stores update_object wrote itself
C22_WhenWrittenByUpsert == WrittenByUpsert(upsert.before) => C22_UpsertByIdentifier

\* a call that replaced a record update_object had written before
C22_Replaced ==
    /\ Called /\ upsert.ok
    /\ WrittenByUpsert(upsert.before)
    /\ Held(upsert.before, upsert.model) # {}
    /\ store # upsert.before

\* the LLM calls in flight, and the tasks sleeping in back-off
InFlight == tasks[<<"calling", 0>>] + tasks[<<"calling", 1>>]
InBackoff == tasks[<<"backoff", 0>>] + tasks[<<"backoff", 1>>]

\* C27: during stage two never more than PARALLEL_LIMIT LLM calls are in
\* flight, and the slots taken are those of the calls in flight: a call in
\* retry back-off holds none
C27_ParallelLimit ==
    /\ InFlight <= PARALLEL_LIMIT
    /\ PARALLEL_LIMIT - semaphore = InFlight

\* all slots are taken by calls in flight while another call is in back-off
C27_Witness ==
    /\ pc = "stage two"
    /\ InFlight = PARALLEL_LIMIT
    /\ InBackoff > 0

\* the identifier is the UUID of a global record of the store
Identifies(db, id) == \E o \in GlobalRecords(db) : o.uuid = id

\* the global identifiers the edges of the persisted segment reference
GlobalReferences ==
    {e \in UNION {Endpoints(chunk.connections[i]) : i \in 1..Len(chunk.connections)} :
        \E k \in DOMAIN id_map : id_map[k] = e}

\* C30: the store step that follows the merge in Encoder.encode removes no
\* global record the merge wrote or updated: a global identifier that an edge
\* of the persisted segment references identifies a stored record when encode
\* returns, as it did after the merge
C30_StoreStepKeepsGlobalRecords ==
    [][pc' = "stored" =>
          \A e \in GlobalReferences : Identifies(store, e) => Identifies(store', e)]_vars

\* the statement of C30 for the store steps that delete no collection
C30_WhenNothingDeleted ==
    [][(pc' = "stored" /\ \A o \in store : o \in store') =>
          \A e \in GlobalReferences : Identifies(store, e) => Identifies(store', e)]_vars

\* both merge calls have returned
BothReturned == pc = "done" /\ other.pc = "done"

\* the global Person records of the store
PersonRecords == {o \in store : o.collection = CollectionName("Person")}

\* C21: two segments that each hold a record of the same entity, merged with
\* their store calls interleaved, create at most one new global record for it
C21_AtMostOneNewRecord ==
    BothReturned => Cardinality(PersonRecords) <= 1

====
